---- MODULE Spec2Model ----
(***************************************************************************)
(* Model of Random-Phone-Number-Generator.py: one run of main(), i.e.      *)
(* generate_phone_numbers (validation, feasibility check, generation loop) *)
(* followed by save_to_csv, with the error exit of main's except clause.   *)
(*                                                                         *)
(* Strings are sequences of one-character strings, so that strip, lstrip,  *)
(* isdigit, concatenation and the CSV encoding are computed character by   *)
(* character as the Python code computes them.                             *)
(***************************************************************************)
EXTENDS Integers, Sequences, FiniteSets, TLC

(***************************************************************************)
(* Bounds of the model.                                                    *)
(*                                                                         *)
(* NumDigits is the size of the alphabet the random body is drawn from.    *)
(* The program uses the ten characters '0123456789' (line 74) and          *)
(* accordingly 10 ** remaining_length combinations (line 63).  The model   *)
(* is the same program over the first NumDigits of those characters, with  *)
(* NumDigits ** remaining_length combinations, so that the boundary        *)
(* limit = max_possible is reached with short result lists.                *)
(*                                                                         *)
(* MaxCount is the largest count requested.  The total lengths, at most 3, *)
(* leave a random body of at most 2 digits.                                *)
(***************************************************************************)
NumDigits == 2
MaxCount  == 3

DigitChars == <<"0", "1", "2", "3", "4", "5", "6", "7", "8", "9">>

DigitSet == {DigitChars[i] : i \in 1..10}

\* the characters rng.choice draws from
Alphabet == {DigitChars[i] : i \in 1..NumDigits}

Whitespace == {" ", "\t"}

(***************************************************************************)
(* Python string helpers.                                                  *)
(***************************************************************************)
RECURSIVE LStripSet(_, _)
\* s.lstrip(chars): drop EVERY leading character that is in chars
LStripSet(s, chars) ==
    IF s # <<>> /\ Head(s) \in chars THEN LStripSet(Tail(s), chars) ELSE s

RECURSIVE RStripSet(_, _)
RStripSet(s, chars) ==
    IF s # <<>> /\ s[Len(s)] \in chars
    THEN RStripSet(SubSeq(s, 1, Len(s) - 1), chars)
    ELSE s

\* s.strip(): drop leading and trailing whitespace
Strip(s) == RStripSet(LStripSet(s, Whitespace), Whitespace)

\* s.isdigit(): non-empty and every character is a digit
IsDigit(s) == s # <<>> /\ \A i \in 1..Len(s) : s[i] \in DigitSet

RECURSIVE Pow(_, _)
Pow(b, e) == IF e <= 0 THEN 1 ELSE b * Pow(b, e - 1)

\* the values ''.join(rng.choice(...) for _ in range(n)) can take
Bodies(n) == IF n <= 0 THEN {<<>>} ELSE [1..n -> Alphabet]

(***************************************************************************)
(* Inputs of a run (the argument namespace main receives) and the state of *)
(* the output path before the run.                                         *)
(***************************************************************************)
TotalLengths == {-1, 0, 1, 2, 3}

CountryCodes == { <<"1">>, <<"+", "1">>, <<"+", "+", "1">>, <<" ", "+", "1", "2", " ">>,
                  <<"+">>, <<"+", "1", "+">>, <<"+", " ", "1">>, <<"1", "a">> }

LocalCodes == { <<>>, <<"4">>, <<" ", "4", " ">>, <<"4", "1", "5">>, <<"4", "x">> }

Counts == (-1)..MaxCount

\* the file at the output path: whether it exists, and its characters
NoFile == [exists |-> FALSE, data |-> <<>>]

FileOf(text) == [exists |-> TRUE, data |-> text]

OldFiles == { NoFile, FileOf(<<"o", "l", "d", "\r", "\n", "+", "1", "9", "\r", "\n">>) }

VARIABLES
    total_length,   \* args.total
    country_code,   \* args.country
    local_code,     \* args.local
    limit,          \* args.count
    include_plus,   \* not args.no_plus
    unique,         \* not args.no_unique
    file,           \* content of the file at filename, or NoFile
    file0,          \* content of the file at filename when the run started
    pc,             \* position of the run
    results,        \* generate_phone_numbers: results
    seen,           \* generate_phone_numbers: seen
    error,          \* kind of the exception raised, "none" if none
    csv_calls       \* number of calls of save_to_csv

vars == <<total_length, country_code, local_code, limit, include_plus, unique,
          file, file0, pc, results, seen, error, csv_calls>>

args == <<total_length, country_code, local_code, limit, include_plus, unique,
          file0>>

(***************************************************************************)
(* generate_phone_numbers, lines 45-68: validation and feasibility.        *)
(***************************************************************************)
country_digits == LStripSet(Strip(country_code), {"+"})

local_digits == Strip(local_code)

remaining_length == total_length - Len(country_digits) - Len(local_digits)

max_possible == Pow(NumDigits, remaining_length)

\* variant of TooShort: the test written as remaining_length < 0
TooShortStrict == remaining_length < 0

\* line 57
TooShort == remaining_length <= 0

\* variant of CapacityExceeded: the test written with >=
CapacityExceededAtLimit == unique /\ limit >= max_possible

\* variant of CapacityExceeded: one combination too many is let through
CapacityExceededLate == unique /\ limit > max_possible + 1

\* line 64
CapacityExceeded == unique /\ limit > max_possible

\* the exception raised by lines 45-68, in the order the code tests
ValidationError ==
    IF total_length <= 0 THEN "InvalidConfiguration"
    ELSE IF ~IsDigit(country_digits) THEN "InvalidConfiguration"
    ELSE IF local_digits # <<>> /\ ~IsDigit(local_digits) THEN "InvalidConfiguration"
    ELSE IF TooShort THEN "InvalidConfiguration"
    ELSE IF CapacityExceeded THEN "CapacityExceeded"
    ELSE "none"

\* variant of LoopTest: the test written with <=
LoopTestInclusive == Len(results) <= limit

\* line 73, the loop test
LoopTest == Len(results) < limit

\* variant of Collision: the membership test is left out
CollisionIgnored(full) == FALSE

\* lines 76-77, the iteration is abandoned
Collision(full) == unique /\ full \in seen

full_number(body) == country_digits \o local_digits \o body

\* variant of Formatted: the separator is added unconditionally
FormattedAlwaysPlus(full) == <<"+">> \o full

\* lines 81-84
Formatted(full) == IF include_plus THEN <<"+">> \o full ELSE full

(***************************************************************************)
(* save_to_csv, lines 93-96, with csv.writer's default dialect: a field is *)
(* quoted only if it holds a delimiter, a quote or a line break (or is the *)
(* empty sole field of its row), and every row ends with "\r\n".           *)
(***************************************************************************)
Header == <<"P", "h", "o", "n", "e", " ", "N", "u", "m", "b", "e", "r">>

CsvSpecial == {",", "\"", "\r", "\n"}

RECURSIVE DoubleQuotes(_)
DoubleQuotes(s) ==
    IF s = <<>> THEN <<>>
    ELSE (IF Head(s) = "\"" THEN <<"\"", "\"">> ELSE <<Head(s)>>) \o DoubleQuotes(Tail(s))

CsvField(s) ==
    IF s = <<>> \/ \E i \in 1..Len(s) : s[i] \in CsvSpecial
    THEN <<"\"">> \o DoubleQuotes(s) \o <<"\"">>
    ELSE s

\* writer.writerow([s])
CsvRow(s) == CsvField(s) \o <<"\r", "\n">>

RECURSIVE CsvRows(_)
\* writer.writerows([[p] for p in phone_numbers])
CsvRows(phone_numbers) ==
    IF phone_numbers = <<>> THEN <<>>
    ELSE CsvRow(Head(phone_numbers)) \o CsvRows(Tail(phone_numbers))

\* variant of save_to_csv: the file is opened in append mode
save_to_csv_append(phone_numbers, old) ==
    FileOf(old.data \o CsvRow(Header) \o CsvRows(phone_numbers))

\* the content of the file after save_to_csv(phone_numbers, filename)
\* (mode "w" truncates: the old content plays no part)
save_to_csv(phone_numbers, old) == FileOf(CsvRow(Header) \o CsvRows(phone_numbers))

(***************************************************************************)
(* The run.                                                                *)
(***************************************************************************)
Init ==
    /\ total_length \in TotalLengths
    /\ country_code \in CountryCodes
    /\ local_code \in LocalCodes
    /\ limit \in Counts
    /\ include_plus \in BOOLEAN
    /\ unique \in BOOLEAN
    /\ file0 \in OldFiles
    /\ file = file0
    /\ pc = "generate"
    /\ results = <<>>
    /\ seen = {}
    /\ error = "none"
    /\ csv_calls = 0

\* variant of Validate: the exception is swallowed and main goes on to save
ValidateThenSave ==
    /\ pc = "generate"
    /\ error' = ValidationError
    /\ pc' = IF ValidationError = "none" THEN "while" ELSE "save"
    /\ results' = <<>>
    /\ seen' = {}
    /\ UNCHANGED <<args, file, csv_calls>>

\* main line 176 calling generate_phone_numbers, lines 45-71
Validate ==
    /\ pc = "generate"
    /\ error' = ValidationError
    /\ pc' = IF ValidationError = "none" THEN "while" ELSE "except"
    /\ results' = <<>>
    /\ seen' = {}
    /\ UNCHANGED <<args, file, csv_calls>>

\* the test of the while loop is about to be evaluated: on entry and after an
\* appending iteration ("while"), or after the continue of line 78 ("retry")
AtLoopHead == pc \in {"while", "retry"}

\* variant of LoopIter: seen.add is left out
LoopIterNoAdd(body) ==
    /\ AtLoopHead
    /\ LoopTest
    /\ body \in Bodies(remaining_length)
    /\ IF Collision(full_number(body))
       THEN /\ pc' = "retry"
            /\ UNCHANGED <<results, seen>>
       ELSE /\ pc' = "while"
            /\ seen' = seen
            /\ results' = Append(results, Formatted(full_number(body)))
    /\ UNCHANGED <<args, file, error, csv_calls>>

\* one iteration of the while loop, lines 73-84, drawing number_body = body
LoopIter(body) ==
    /\ AtLoopHead
    /\ LoopTest
    /\ body \in Bodies(remaining_length)
    /\ IF Collision(full_number(body))
       THEN /\ pc' = "retry"
            /\ UNCHANGED <<results, seen>>
       ELSE /\ pc' = "while"
            /\ seen' = IF unique THEN seen \cup {full_number(body)} ELSE seen
            /\ results' = Append(results, Formatted(full_number(body)))
    /\ UNCHANGED <<args, file, error, csv_calls>>

\* the loop test fails, line 86 returns results to main
LoopReturn ==
    /\ AtLoopHead
    /\ ~LoopTest
    /\ pc' = "save"
    /\ UNCHANGED <<args, file, results, seen, error, csv_calls>>

\* main lines 184-185: save_to_csv and the success message; open() of line
\* 93 succeeds (writable) or raises OSError, as the environment decides
SaveToCsv(writable) ==
    /\ pc = "save"
    /\ csv_calls' = csv_calls + 1
    /\ IF writable
       THEN /\ file' = save_to_csv(results, file)
            /\ pc' = "exit0"
            /\ error' = error
       ELSE /\ file' = file
            /\ pc' = "except"
            /\ error' = "IOFailure"
    /\ UNCHANGED <<args, results, seen>>

\* main lines 186-188: the except clause prints the error and exits with 1
ExitError ==
    /\ pc = "except"
    /\ pc' = "exit1"
    /\ UNCHANGED <<args, file, results, seen, error, csv_calls>>

Next ==
    \/ Validate
    \/ \E body \in Bodies(remaining_length) : LoopIter(body)
    \/ LoopReturn
    \/ \E writable \in BOOLEAN : SaveToCsv(writable)
    \/ ExitError

Spec == Init /\ [][Next]_vars

\* every loop iteration that can be drawn is eventually drawn (fair random
\* source), and the synchronous run never stops between two statements
AllBodies == UNION {Bodies(t - 1) : t \in {n \in TotalLengths : n >= 2}}

Fairness ==
    /\ WF_vars(Validate)
    /\ \A body \in AllBodies : WF_vars(LoopIter(body))
    /\ WF_vars(LoopReturn)
    /\ WF_vars(\E writable \in BOOLEAN : SaveToCsv(writable))
    /\ WF_vars(ExitError)

\* the runs checked for termination: every total length, count and policy,
\* over fewer spellings of the codes and one state of the output path
FairInit ==
    /\ Init
    /\ country_code \in {<<"+", "1">>, <<" ", "+", "1", "2", " ">>, <<"1", "a">>}
    /\ local_code \in {<<>>, <<"4">>}
    /\ file0 = NoFile

FairSpec == FairInit /\ [][Next]_vars /\ Fairness

(***************************************************************************)
(* Vocabulary of the properties.                                           *)
(***************************************************************************)
GenErrors == {"InvalidConfiguration", "CapacityExceeded"}

\* generate_phone_numbers has returned its list to main
Returned == pc \in {"save", "exit0"} \/ error = "IOFailure"

\* generate_phone_numbers has been called
Called == pc # "generate"

\* the digit codes are well formed and leave room for a random body
CodesValid ==
    /\ total_length > 0
    /\ IsDigit(country_digits)
    /\ (local_digits = <<>> \/ IsDigit(local_digits))
    /\ remaining_length > 0

ValidConfig ==
    /\ CodesValid
    /\ limit >= 0
    /\ (unique => limit <= max_possible)

Max0(n) == IF n < 0 THEN 0 ELSE n

\* a result without its separator
Unformatted(s) == IF s # <<>> /\ Head(s) = "+" THEN Tail(s) ELSE s

\* the last iteration drew a body that had already been produced
JustCollided == pc = "retry"

(***************************************************************************)
(* C1: for every valid configuration (well-formed codes, remaining length  *)
(* > 0, count >= 0, and count <= max_possible when unique), the call does  *)
(* not fail and the list it returns has exactly count values; this covers  *)
(* count = 0 and, without uniqueness, counts above max_possible.           *)
(***************************************************************************)
ReturnsExactlyCount ==
    (Called /\ ValidConfig) =>
        /\ error \notin GenErrors
        /\ Len(results) <= limit
        /\ (Returned => Len(results) = limit)

ReturnsExactlyCountWitness ==
    /\ Returned
    /\ ValidConfig
    /\ ~unique
    /\ limit > max_possible
    /\ Len(results) = limit

(***************************************************************************)
(* C2: with unique set, no two entries of results are equal, whatever      *)
(* bodies the random source produced.                                      *)
(***************************************************************************)
NoDuplicates ==
    unique => \A i, j \in 1..Len(results) : i # j => results[i] # results[j]

NoDuplicatesWitness ==
    /\ unique
    /\ JustCollided
    /\ Len(results) >= 2

\* the shape of one result
WellFormatted(s) ==
    LET d == IF include_plus THEN Tail(s) ELSE s
        k == Len(country_digits) + Len(local_digits)
    IN  /\ s # <<>>
        /\ include_plus <=> (Head(s) = "+")
        /\ Len(d) = total_length
        /\ \A i \in 1..Len(d) : d[i] \in DigitSet
        /\ SubSeq(d, 1, Len(country_digits)) = country_digits
        /\ SubSeq(d, Len(country_digits) + 1, k) = local_digits
        /\ Len(d) - k = remaining_length

(***************************************************************************)
(* C3: every result is '+' (exactly when include_plus) followed by         *)
(* country_digits, local_digits and remaining_length decimal digits; its   *)
(* digit content has length total_length.                                  *)
(***************************************************************************)
ResultsWellFormatted == \A i \in 1..Len(results) : WellFormatted(results[i])

ResultsWellFormattedWitness ==
    /\ Returned
    /\ ~include_plus
    /\ local_digits # <<>>
    /\ Len(results) >= 2
    /\ results[1] # results[2]

(***************************************************************************)
(* C4: once the codes are validated, with unique set the call fails with   *)
(* the capacity error whenever count > max_possible, before any number is  *)
(* drawn, and the capacity check does not fail when count <= max_possible  *)
(* (count = max_possible included).                                        *)
(***************************************************************************)
CapacityCheck ==
    (Called /\ CodesValid /\ unique) =>
        /\ limit > max_possible =>
              /\ error = "CapacityExceeded"
              /\ results = <<>> /\ seen = {}
              /\ pc \in {"except", "exit1"}
        /\ limit <= max_possible => error # "CapacityExceeded"

CapacityCheckWitness ==
    /\ unique
    /\ error = "CapacityExceeded"
    /\ limit = max_possible + 1
    /\ pc = "exit1"

(***************************************************************************)
(* C5: whenever total_length <= 0 or the remaining length is <= 0 the call *)
(* fails with the invalid-configuration error and produces no number,      *)
(* whatever count, unique and include_plus are.                            *)
(***************************************************************************)
RejectsShortConfig ==
    (Called /\ (total_length <= 0 \/ remaining_length <= 0)) =>
        /\ error = "InvalidConfiguration"
        /\ results = <<>> /\ seen = {}
        /\ pc \in {"except", "exit1"}

RejectsShortConfigWitness ==
    /\ total_length = 3
    /\ country_digits = <<"1">>
    /\ local_digits = <<"4", "1", "5">>
    /\ remaining_length = -1
    /\ error = "InvalidConfiguration"
    /\ pc = "exit1"

(***************************************************************************)
(* C6: only a single leading '+' is stripped from the country code; a      *)
(* code that still holds a non-digit after that one strip (such as "++1")  *)
(* is rejected with the invalid-configuration error.                       *)
(***************************************************************************)
StripOnePlus(s) == IF s # <<>> /\ Head(s) = "+" THEN Tail(s) ELSE s

SingleStripRejects ==
    (Called /\ ~IsDigit(StripOnePlus(Strip(country_code)))) =>
        error = "InvalidConfiguration"

RECURSIVE CsvParse(_, _, _, _, _, _)
\* a reader of the delimited format: the records of text, each a list of
\* fields
CsvParse(t, i, field, row, quoted, recs) ==
    IF i > Len(t)
    THEN IF field # <<>> \/ row # <<>> THEN Append(recs, Append(row, field)) ELSE recs
    ELSE IF quoted
    THEN IF t[i] = "\""
         THEN IF i < Len(t) /\ t[i + 1] = "\""
              THEN CsvParse(t, i + 2, Append(field, "\""), row, TRUE, recs)
              ELSE CsvParse(t, i + 1, field, row, FALSE, recs)
         ELSE CsvParse(t, i + 1, Append(field, t[i]), row, TRUE, recs)
    ELSE IF t[i] = "\"" /\ field = <<>>
    THEN CsvParse(t, i + 1, field, row, TRUE, recs)
    ELSE IF t[i] = ","
    THEN CsvParse(t, i + 1, <<>>, Append(row, field), FALSE, recs)
    ELSE IF t[i] = "\r" /\ i < Len(t) /\ t[i + 1] = "\n"
    THEN CsvParse(t, i + 2, <<>>, <<>>, FALSE, Append(recs, Append(row, field)))
    ELSE IF t[i] \in {"\r", "\n"}
    THEN CsvParse(t, i + 1, <<>>, <<>>, FALSE, Append(recs, Append(row, field)))
    ELSE CsvParse(t, i + 1, Append(field, t[i]), row, FALSE, recs)

ReadCsv(text) == CsvParse(text, 1, <<>>, <<>>, FALSE, <<>>)

CsvRoundTrip ==
    pc = "exit0" =>
        /\ file.exists
        /\ LET recs == ReadCsv(file.data)
           IN  /\ Len(recs) = Len(results) + 1
               /\ recs[1] = <<Header>>
               /\ \A i \in 1..Len(results) : recs[i + 1] = <<results[i]>>

CsvRoundTripWitness ==
    /\ pc = "exit0"
    /\ file0.exists
    /\ file # file0
    /\ Len(results) >= 2
    /\ results[1] # results[2]

LoopInv ==
    AtLoopHead =>
        IF unique
        THEN /\ seen = {Unformatted(results[i]) : i \in 1..Len(results)}
             /\ Cardinality(seen) = Len(results)
             /\ Len(results) <= Max0(limit)
             /\ limit <= max_possible
        ELSE seen = {}

LoopStep ==
    /\ (AtLoopHead /\ pc' = "retry") =>
          (unique /\ results' = results /\ seen' = seen)
    /\ (AtLoopHead /\ pc' = "while") =>
          \E body \in Bodies(remaining_length) :
              /\ ~(unique /\ full_number(body) \in seen)
              /\ results' = Append(results, Formatted(full_number(body)))
              /\ seen' = IF unique THEN seen \cup {full_number(body)} ELSE {}

====
